---- MODULE Spec2Model ----
(***************************************************************************)
(* Contract (src/contract/default.ts) and ContractFactory: the ABI-driven  *)
(* binding layer.  The state is one Contract instance (its own properties, *)
(* the four bound collections, backend, pending deployment hash) and the   *)
(* record of the last operation: what was called, the steps it took        *)
(* (validate, compile, backend requests, warnings) and how it ended.       *)
(***************************************************************************)
EXTENDS Integers, Sequences, FiniteSets, TLC

VARIABLES abi, own, functions, callStatic, populateTransaction, estimateFee,
          providerOrAccount, deployTransactionHash, last, trace, ret

vars == <<abi, own, functions, callStatic, populateTransaction, estimateFee,
          providerOrAccount, deployTransactionHash, last, trace, ret>>

\* Longest positional argument list a caller passes.
MaxArgs == 2
\* Longest schema (number of ABI entries).
MaxAbi == 2

(***************************************************************************)
(* JavaScript values                                                       *)
(***************************************************************************)
Undefined == [t |-> "undefined"]
Null == [t |-> "null"]
Num(n) == [t |-> "number", v |-> n]
Str(s) == [t |-> "string", v |-> s]
Bool(b) == [t |-> "boolean", v |-> b]
\* A plain object: o maps its keys to values.
Obj(o) == [t |-> "object", v |-> o]
EmptyObj == Obj(<<>>)
\* An array of wire words carrying compiled === true (a Calldata).
Compiled(words) == [t |-> "calldata", v |-> words]
\* A plain array of values (a raw positional list).
RawArray(xs) == [t |-> "array", v |-> xs]
\* A function value: a prototype method, or a closure built for ABI entry i.
Fn(kind, i) == [t |-> "function", v |-> [kind |-> kind, entry |-> i]]

TypeOf(x) ==
  CASE x.t = "undefined" -> "undefined"
    [] x.t = "number" -> "number"
    [] x.t = "string" -> "string"
    [] x.t = "boolean" -> "boolean"
    [] x.t = "function" -> "function"
    [] OTHER -> "object"

Truthy(x) ==
  CASE x.t \in {"undefined", "null"} -> FALSE
    [] x.t = "number" -> x.v # 0
    [] x.t = "string" -> x.v # ""
    [] x.t = "boolean" -> x.v
    [] OTHER -> TRUE

\* o[k] for a named key k: undefined unless o is a plain object holding k.
Get(o, k) == IF o.t = "object" /\ k \in DOMAIN o.v THEN o.v[k] ELSE Undefined

\* k in o, for o of typeof 'object' other than null (arrays hold no named key).
In(k, o) == o.t = "object" /\ k \in DOMAIN o.v

\* {...a, ...b}
Spread(a, b) ==
  Obj([k \in (DOMAIN a.v) \cup (DOMAIN b.v) |->
         IF k \in DOMAIN b.v THEN b.v[k] ELSE a.v[k]])

\* A destructuring default: d when the property is undefined.
Default(x, d) == IF x = Undefined THEN d ELSE x

ToLowerCase(s) ==
  CASE s = "0xAB" -> "0xab"
    [] s = "0xEF" -> "0xef"
    [] OTHER -> s

(***************************************************************************)
(* How an operation ends, and the steps it records                         *)
(***************************************************************************)
Return(x) == [k |-> "return", v |-> x]
Throw(e) == [k |-> "throw", v |-> Str(e)]

NotConnected == "contract is not connected to an address"
NonceRequired == "Nonce is required when invoking a function without an account"
NotAccount == "Contract must be connected to the account contract to estimate"
DeployFailed == "Deployment of the contract failed"
TypeError == "TypeError"
ValidationError == "ValidationError"
CompileError == "CompileError"
BackendError == "BackendError"

Outcome(tr, r) == [trace |-> tr, ret |-> r]

(***************************************************************************)
(* splitArgsAndOptions                                                     *)
(***************************************************************************)
OptionKeys == {"blockIdentifier", "parseRequest", "parseResponse", "formatResponse",
               "maxFee", "nonce", "signature"}

Last(args) == IF Len(args) = 0 THEN Undefined ELSE args[Len(args)]

Front(args) == SubSeq(args, 1, Len(args) - 1)

\* threw: `x in null` raised a TypeError; otherwise the positional list and
\* the options object returned.
splitArgsAndOptions(args) ==
  LET lastArg == Last(args) IN
  IF TypeOf(lastArg) = "object"
  THEN IF lastArg = Null
       THEN [threw |-> TRUE, args |-> args, options |-> Undefined]
       ELSE IF \E x \in OptionKeys : In(x, lastArg)
            THEN [threw |-> FALSE, args |-> Front(args), options |-> lastArg]
            ELSE [threw |-> FALSE, args |-> args, options |-> EmptyObj]
  ELSE [threw |-> FALSE, args |-> args, options |-> EmptyObj]

(***************************************************************************)
(* getCalldata                                                             *)
(***************************************************************************)
\* The result of running a callback: the steps it took and its value, or the
\* error it threw.
Ran(tr, x) == [threw |-> FALSE, err |-> "", trace |-> tr, value |-> x]
Threw(tr, e) == [threw |-> TRUE, err |-> e, trace |-> tr, value |-> Undefined]

\* args?.compiled
IsCalldata(args) == args.t = "calldata"
\* args[0]?.compiled
FirstIsCalldata(args) == args.t = "array" /\ Len(args.v) > 0 /\ args.v[1].t = "calldata"

\* getCalldata without the look at args[0].
getCalldataArgsOnly(args, callback) ==
  IF IsCalldata(args) THEN Ran(<<>>, args) ELSE callback

\* callback is the (lazily evaluated) result of calling the callback.
getCalldata(args, callback) ==
  IF IsCalldata(args) THEN Ran(<<>>, args)
  ELSE IF FirstIsCalldata(args) THEN Ran(<<>>, args.v[1])
  ELSE callback

(***************************************************************************)
(* The schema                                                              *)
(***************************************************************************)
Names == {"f", "address", "invoke"}

\* A function entry; an absent mutability tag is "".
FunctionAbi(name, sm, s_m) ==
  [type |-> "function", name |-> name, stateMutability |-> sm,
   state_mutability |-> s_m, inputs |-> <<"felt">>]

ConstructorAbi ==
  [type |-> "constructor", name |-> "constructor", stateMutability |-> "",
   state_mutability |-> "", inputs |-> <<"felt">>]

Mutabilities == {<<"view", "">>, <<"", "view">>, <<"external", "">>}

EntriesOver(names) ==
  {FunctionAbi(n, m[1], m[2]) : n \in names, m \in Mutabilities} \cup {ConstructorAbi}

AbisOver(names) ==
  UNION {[1..n -> EntriesOver(names)] : n \in 0..MaxAbi}

\* this.abi.find((abi) => abi.name === method): the index found, 0 for undefined.
find(method) ==
  IF \E i \in 1..Len(abi) : abi[i].name = method
  THEN CHOOSE i \in 1..Len(abi) :
         abi[i].name = method /\ \A j \in 1..(i - 1) : abi[j].name # method
  ELSE 0

(***************************************************************************)
(* CallData: validate and compile                                          *)
(***************************************************************************)
\* The entry validate checks against: the constructor for DEPLOY, else the
\* function of that name; 0 when the schema has none.
validated(kind, method) ==
  LET ok(i) == abi[i].name = method
               /\ abi[i].type = (IF kind = "DEPLOY" THEN method ELSE "function")
  IN IF \E i \in 1..Len(abi) : ok(i)
     THEN CHOOSE i \in 1..Len(abi) : ok(i) /\ \A j \in 1..(i - 1) : ~ok(j)
     ELSE 0

ShapeOk(x) == x.t \in {"number", "string", "boolean", "object"}

\* Argument count and basic shape against the declared inputs.
validate(kind, method, args) ==
  LET i == validated(kind, method)
      step == <<[ev |-> "validate", kind |-> kind, method |-> method, args |-> args]>>
  IN IF /\ i # 0
        /\ Len(args.v) = Len(abi[i].inputs)
        /\ \A k \in 1..Len(args.v) : ShapeOk(args.v[k])
     THEN Ran(step, Undefined)
     ELSE Threw(step, ValidationError)

KeyOrder == <<"addressSalt", "blockIdentifier", "maxFee", "nonce", "notAnOption",
              "parseRequest", "parseResponse", "signature">>

Word(x) ==
  CASE x.t = "number" -> ToString(x.v)
    [] x.t = "boolean" -> IF x.v THEN "1" ELSE "0"
    [] OTHER -> x.v

RECURSIVE Members(_, _)
\* The wire words of an object's members, in key order from position k on.
Members(o, k) ==
  IF k > Len(KeyOrder) THEN <<>>
  ELSE (IF KeyOrder[k] \in DOMAIN o THEN <<Word(o[KeyOrder[k]])>> ELSE <<>>)
       \o Members(o, k + 1)

Encodable(x) == x.t \in {"number", "string", "boolean", "object", "calldata"}

Encode(x) ==
  CASE x.t = "object" -> Members(x.v, 1)
    [] x.t = "calldata" -> x.v
    [] OTHER -> <<Word(x)>>

RECURSIVE Flatten(_)
Flatten(xs) == IF xs = <<>> THEN <<>> ELSE Encode(Head(xs)) \o Flatten(Tail(xs))

\* Serialises the arguments to the flat wire words, tagged compiled.
compile(args, inputs) ==
  LET step == <<[ev |-> "compile", args |-> args, inputs |-> inputs]>>
  IN IF \A k \in 1..Len(args.v) : Encodable(args.v[k])
     THEN Ran(step, Compiled(Flatten(args.v)))
     ELSE Threw(step, CompileError)

(***************************************************************************)
(* The execution dispatcher: call, invoke, estimate, populate              *)
(***************************************************************************)
address == own["address"]

Call(contractAddress, entrypoint, calldata) ==
  [t |-> "call", contractAddress |-> contractAddress, entrypoint |-> entrypoint,
   calldata |-> calldata]

Warn == [ev |-> "warn"]

\* The callback call, invoke and deploy hand to getCalldata.
parseCallback(kind, method, args, parseRequest) ==
  IF Truthy(parseRequest)
  THEN IF kind # "DEPLOY" /\ find(method) = 0
       THEN Threw(<<>>, TypeError)
       ELSE LET v == validate(kind, method, args) IN
            IF v.threw THEN v
            ELSE LET c == compile(args, IF kind = "DEPLOY" THEN <<>>
                                        ELSE abi[find(method)].inputs) IN
                 IF c.threw THEN Threw(v.trace \o c.trace, c.err)
                 ELSE Ran(v.trace \o c.trace, c.value)
  ELSE Ran(<<Warn>>, args)

\* assert(this.address !== null, ...)
connected == address # Null

Response(x) == [t |-> "response", v |-> x]

call(method, args, options) ==
  LET parseRequest == Default(Get(options, "parseRequest"), Bool(TRUE))
      parseResponse == Default(Get(options, "parseResponse"), Bool(TRUE))
      formatResponse == Get(options, "formatResponse")
      blockIdentifier == Get(options, "blockIdentifier")
  IN IF ~connected THEN Outcome(<<>>, Throw(NotConnected))
     ELSE LET calldata == getCalldata(args, parseCallback("CALL", method, args, parseRequest)) IN
          IF calldata.threw THEN Outcome(calldata.trace, Throw(calldata.err))
          ELSE Outcome(
                 calldata.trace \o
                 <<[ev |-> "callContract",
                    call |-> Call(address, method, calldata.value),
                    blockIdentifier |-> blockIdentifier]>>,
                 Return(Response(IF ~Truthy(parseResponse) THEN "raw"
                                 ELSE IF Truthy(formatResponse) THEN "formatted"
                                 ELSE "parsed")))

invoke(method, args, options) ==
  LET parseRequest == Default(Get(options, "parseRequest"), Bool(TRUE))
      maxFee == Get(options, "maxFee")
      nonce == Get(options, "nonce")
      signature == Get(options, "signature")
  IN IF ~connected THEN Outcome(<<>>, Throw(NotConnected))
     ELSE LET calldata == getCalldata(args, parseCallback("INVOKE", method, args, parseRequest)) IN
          IF calldata.threw THEN Outcome(calldata.trace, Throw(calldata.err))
          ELSE LET invocation == Call(address, method, calldata.value) IN
               IF providerOrAccount.execute
               THEN Outcome(
                      calldata.trace \o
                      <<[ev |-> "execute", call |-> invocation, maxFee |-> maxFee,
                         nonce |-> nonce]>>,
                      Return(Response("transaction_hash")))
               ELSE IF ~Truthy(nonce) THEN Outcome(calldata.trace, Throw(NonceRequired))
               ELSE Outcome(
                      calldata.trace \o
                      <<Warn, [ev |-> "invokeFunction", call |-> invocation,
                               signature |-> signature, nonce |-> nonce]>>,
                      Return(Response("transaction_hash")))

populate(method, args) ==
  LET i == find(method) IN
  IF i = 0 THEN Outcome(<<>>, Throw(TypeError))
  ELSE LET calldata == getCalldata(args, compile(args, abi[i].inputs)) IN
       IF calldata.threw THEN Outcome(calldata.trace, Throw(calldata.err))
       ELSE Outcome(calldata.trace, Return(Call(address, method, calldata.value)))

\* The populate step estimate records: the Call populate returned.
Populated(c) == [ev |-> "populate", call |-> c]

\* estimate with the capability probed before populate builds the Call.
estimateProbingFirst(method, args) ==
  IF ~connected THEN Outcome(<<>>, Throw(NotConnected))
  ELSE LET v == IF ~Truthy(getCalldata(args, Ran(<<>>, Bool(FALSE))).value)
                THEN validate("INVOKE", method, args)
                ELSE Ran(<<>>, Undefined)
       IN IF v.threw THEN Outcome(v.trace, Throw(v.err))
          ELSE IF ~providerOrAccount.estimateInvokeFee
               THEN Outcome(v.trace, Throw(NotAccount))
               ELSE LET invocation == populate(method, args) IN
                    IF invocation.ret.k = "throw"
                    THEN Outcome(v.trace \o invocation.trace, invocation.ret)
                    ELSE Outcome(v.trace \o invocation.trace
                                 \o <<Populated(invocation.ret.v),
                                      [ev |-> "estimateInvokeFee",
                                       call |-> invocation.ret.v]>>,
                                 Return(Response("fee")))

estimate(method, args) ==
  IF ~connected THEN Outcome(<<>>, Throw(NotConnected))
  ELSE LET v == IF ~Truthy(getCalldata(args, Ran(<<>>, Bool(FALSE))).value)
                THEN validate("INVOKE", method, args)
                ELSE Ran(<<>>, Undefined)
       IN IF v.threw THEN Outcome(v.trace, Throw(v.err))
          ELSE LET invocation == populate(method, args) IN
               IF invocation.ret.k = "throw"
               THEN Outcome(v.trace \o invocation.trace, invocation.ret)
               ELSE LET tr == v.trace \o invocation.trace
                              \o <<Populated(invocation.ret.v)>>
                    IN IF providerOrAccount.estimateInvokeFee
                       THEN Outcome(tr \o <<[ev |-> "estimateInvokeFee",
                                             call |-> invocation.ret.v]>>,
                                    Return(Response("fee")))
                       ELSE Outcome(tr, Throw(NotAccount))

(***************************************************************************)
(* The method binder: the closures and the constructor                     *)
(***************************************************************************)
Split(params) == [ev |-> "split", args |-> params.args, options |-> params.options]

\* The closure buildCall returns for entry i, applied to args.
buildCall(i, args) ==
  LET params == splitArgsAndOptions(args) IN
  IF params.threw THEN Outcome(<<>>, Throw(TypeError))
  ELSE LET o == call(abi[i].name, RawArray(params.args),
                     Spread(Obj(("parseRequest" :> Bool(TRUE))
                                @@ ("parseResponse" :> Bool(TRUE))),
                            params.options))
       IN Outcome(<<Split(params)>> \o o.trace, o.ret)

\* The closure buildInvoke returns for entry i, applied to args.
buildInvoke(i, args) ==
  LET params == splitArgsAndOptions(args) IN
  IF params.threw THEN Outcome(<<>>, Throw(TypeError))
  ELSE LET o == invoke(abi[i].name, RawArray(params.args),
                       Spread(Obj("parseRequest" :> Bool(TRUE)), params.options))
       IN Outcome(<<Split(params)>> \o o.trace, o.ret)

\* The closure buildPopulate returns for entry i, applied to args.
buildPopulate(i, args) == populate(abi[i].name, RawArray(args))

\* The closure buildEstimate returns for entry i, applied to args.
buildEstimate(i, args) == estimate(abi[i].name, RawArray(args))

buildDefaultOneSpelling(functionAbi) ==
  IF functionAbi.stateMutability = "view" THEN "call" ELSE "invoke"

\* Which builder buildDefault picks for an entry.
buildDefault(functionAbi) ==
  IF functionAbi.stateMutability = "view" \/ functionAbi.state_mutability = "view"
  THEN "call"
  ELSE "invoke"

\* Calling a bound closure.
Apply(f, args) ==
  CASE f.v.kind = "call" -> buildCall(f.v.entry, args)
    [] f.v.kind = "invoke" -> buildInvoke(f.v.entry, args)
    [] f.v.kind = "populate" -> buildPopulate(f.v.entry, args)
    [] f.v.kind = "estimate" -> buildEstimate(f.v.entry, args)

Method == Fn("method", 0)

RECURSIVE Bind(_, _)
\* The constructor's abi.forEach, from entry i on.
Bind(i, c) ==
  IF i > Len(c.abi) THEN c
  ELSE LET abiElement == c.abi[i]
           signature == abiElement.name
           c1 == IF ~Truthy(c.own[signature])
                 THEN [c EXCEPT !.own[signature] = Fn(buildDefault(abiElement), i)]
                 ELSE c
           c2 == IF ~Truthy(c1.functions[signature])
                 THEN [c1 EXCEPT !.functions[signature] = Fn(buildDefault(abiElement), i)]
                 ELSE c1
           c3 == IF ~Truthy(c2.callStatic[signature])
                 THEN [c2 EXCEPT !.callStatic[signature] = Fn("call", i)]
                 ELSE c2
           c4 == IF ~Truthy(c3.populateTransaction[signature])
                 THEN [c3 EXCEPT !.populateTransaction[signature] = Fn("populate", i)]
                 ELSE c3
           c5 == IF ~Truthy(c4.estimateFee[signature])
                 THEN [c4 EXCEPT !.estimateFee[signature] = Fn("estimate", i)]
                 ELSE c4
       IN IF abiElement.type # "function" THEN Bind(i + 1, c) ELSE Bind(i + 1, c5)

\* new Contract(abi, address, providerOrAccount)
Contract(abi_, address_, providerOrAccount_) ==
  Bind(1, [abi |-> abi_,
           own |-> [n \in Names |->
                      CASE n = "address" ->
                             IF Truthy(address_) THEN Str(ToLowerCase(address_.v))
                             ELSE address_
                        [] n = "invoke" -> Method
                        [] OTHER -> Undefined],
           functions |-> [n \in Names |-> Undefined],
           callStatic |-> [n \in Names |-> Undefined],
           populateTransaction |-> [n \in Names |-> Undefined],
           estimateFee |-> [n \in Names |-> Undefined],
           providerOrAccount |-> providerOrAccount_])

(***************************************************************************)
(* Inputs                                                                  *)
(***************************************************************************)
Cd == Compiled(<<"7">>)

PlainValues == {Num(1), Obj("maxFee" :> Num(10))}

Values ==
  PlainValues \cup
  {Cd, Null, Obj("nonce" :> Num(0)), Obj("nonce" :> Num(5)),
   Obj("parseRequest" :> Bool(FALSE)), Obj("parseRequest" :> Bool(TRUE)),
   Obj("notAnOption" :> Bool(TRUE))}

\* The positional lists callers pass: any last element, plain ones before it.
ArgLists ==
  {<<>>} \cup
  {Append(p, v) : p \in UNION {[1..n -> PlainValues] : n \in 0..(MaxArgs - 1)},
                  v \in Values}

\* The lists used where the schema, not the arguments, is what varies.
BindingArgLists == {<<Cd>>, <<Num(1), Obj("nonce" :> Num(5))>>}

\* Constructor arguments where the deployment, not its arguments, is what varies.
LifecycleArgLists == {<<Num(1), Obj("parseRequest" :> Bool(TRUE))>>, <<Cd>>}

\* What call, invoke, estimate and populate are given directly: a Calldata, or
\* a raw list (no options object is split off on this path).
ArgsOrCalldata ==
  {Cd} \cup
  {RawArray(l) : l \in UNION {[1..n -> {Num(1), Cd}] : n \in 0..MaxArgs}}

\* The methods asked for directly: one the schemas hold, one they may not.
Methods == {"f", "address"}

CallOptions ==
  {EmptyObj, Obj("parseRequest" :> Bool(FALSE)), Obj("parseResponse" :> Bool(FALSE))}

Overrides ==
  {EmptyObj, Obj("parseRequest" :> Bool(FALSE)), Obj("nonce" :> Num(0)),
   Obj(("nonce" :> Num(5)) @@ ("signature" :> Str("sig")) @@ ("maxFee" :> Num(10)))}

Backends == [execute : BOOLEAN, estimateInvokeFee : BOOLEAN]
Provider == [execute |-> FALSE, estimateInvokeFee |-> FALSE]
\* The factory's account: an AccountInterface.
Account == [execute |-> TRUE, estimateInvokeFee |-> TRUE]

ConstructAddresses == {Undefined, Null, Str("0xAB")}
AttachAddresses == {Undefined, Null, Str("0xCD")}

\* What declareAndDeploy answers.
DeployResponses ==
  {[contract_address |-> Str("0xEF"), transaction_hash |-> Str("0xh1")],
   [contract_address |-> Undefined, transaction_hash |-> Str("0xh1")]}

Collections == {"instance", "functions", "callStatic", "populateTransaction", "estimateFee"}

(***************************************************************************)
(* State and actions                                                       *)
(***************************************************************************)
This == [t |-> "this"]

instance == <<abi, own, functions, callStatic, populateTransaction, estimateFee,
              providerOrAccount, deployTransactionHash>>

Op(op, via, method, args, options) ==
  [op |-> op, via |-> via, method |-> method, args |-> args, options |-> options]

Finish(l, outcome) ==
  \E o \in {outcome} : last' = l /\ trace' = o.trace /\ ret' = o.ret

\* The instance becomes the freshly constructed c.
New(contract, hash) ==
  \E c \in {contract} :
  /\ abi' = c.abi
  /\ own' = c.own
  /\ functions' = c.functions
  /\ callStatic' = c.callStatic
  /\ populateTransaction' = c.populateTransaction
  /\ estimateFee' = c.estimateFee
  /\ providerOrAccount' = c.providerOrAccount
  /\ deployTransactionHash' = hash

InitOver(abis, addresses, backends) ==
  \E a \in abis, addr \in addresses, p \in backends :
    LET c == Contract(a, addr, p) IN
    /\ abi = c.abi
    /\ own = c.own
    /\ functions = c.functions
    /\ callStatic = c.callStatic
    /\ populateTransaction = c.populateTransaction
    /\ estimateFee = c.estimateFee
    /\ providerOrAccount = c.providerOrAccount
    /\ deployTransactionHash = Undefined
    /\ last = Op("new", "", "", Undefined, Undefined)
    /\ trace = <<>>
    /\ ret = Return(This)

\* A constructor and one function f, of either mutability and spelling.
SimpleAbis == {<<ConstructorAbi, FunctionAbi("f", m[1], m[2])>> : m \in Mutabilities}

Init == InitOver(SimpleAbis, ConstructAddresses, Backends)

\* A connected instance, on every backend.
InitSplit == InitOver(SimpleAbis, {Str("0xAB")}, Backends)

\* Every schema, bound on an instance constructed without an address.
InitBinding == InitOver(AbisOver(Names), {Undefined}, {Provider})

attach(addresses) ==
  \E a \in addresses :
    IF address.t = "function"
    THEN /\ Finish(Op("attach", "", "", a, Undefined), Outcome(<<>>, Throw(TypeError)))
         /\ UNCHANGED instance
    ELSE /\ own' = [own EXCEPT !["address"] = a]
         /\ Finish(Op("attach", "", "", a, Undefined), Outcome(<<>>, Return(Undefined)))
         /\ UNCHANGED <<abi, functions, callStatic, populateTransaction, estimateFee,
                        providerOrAccount, deployTransactionHash>>

connect(backends) ==
  \E p \in backends :
    /\ providerOrAccount' = p
    /\ Finish(Op("connect", "", "", Undefined, Undefined), Outcome(<<>>, Return(Undefined)))
    /\ UNCHANGED <<abi, own, functions, callStatic, populateTransaction, estimateFee,
                   deployTransactionHash>>

Waited == [ev |-> "waitForTransaction", hash |-> deployTransactionHash]

deployedKeepingHash ==
  /\ last' = Op("deployed", "", "", Undefined, Undefined)
  /\ IF Truthy(deployTransactionHash)
     THEN \E ok \in BOOLEAN :
            /\ trace' = <<Waited>>
            /\ ret' = IF ok THEN Return(This) ELSE Throw(BackendError)
     ELSE trace' = <<>> /\ ret' = Return(This)
  /\ UNCHANGED instance

deployed ==
  /\ last' = Op("deployed", "", "", Undefined, Undefined)
  /\ IF Truthy(deployTransactionHash)
     THEN \E ok \in BOOLEAN :
            /\ trace' = <<Waited>>
            /\ IF ok
               THEN deployTransactionHash' = Undefined /\ ret' = Return(This)
               ELSE deployTransactionHash' = deployTransactionHash
                    /\ ret' = Throw(BackendError)
     ELSE /\ trace' = <<>>
          /\ ret' = Return(This)
          /\ deployTransactionHash' = deployTransactionHash
  /\ UNCHANGED <<abi, own, functions, callStatic, populateTransaction, estimateFee,
                 providerOrAccount>>

Call_ ==
  \E method \in Methods, args \in ArgsOrCalldata, options \in CallOptions :
    /\ Finish(Op("call", "", method, args, options), call(method, args, options))
    /\ UNCHANGED instance

Invoke ==
  \E method \in Methods, args \in ArgsOrCalldata, options \in Overrides :
    /\ Finish(Op("invoke", "", method, args, options), invoke(method, args, options))
    /\ UNCHANGED instance

Estimate ==
  \E method \in Methods, args \in ArgsOrCalldata :
    /\ Finish(Op("estimate", "", method, args, Undefined), estimate(method, args))
    /\ UNCHANGED instance

Populate ==
  \E method \in Methods, args \in ArgsOrCalldata :
    /\ Finish(Op("populate", "", method, args, Undefined), populate(method, args))
    /\ UNCHANGED instance

\* contract[name], contract.functions[name], ...
Lookup(via, name) ==
  CASE via = "instance" -> own[name]
    [] via = "functions" -> functions[name]
    [] via = "callStatic" -> callStatic[name]
    [] via = "populateTransaction" -> populateTransaction[name]
    [] via = "estimateFee" -> estimateFee[name]

\* Calling the closure bound under a name.  (A prototype method found there
\* is the direct operation of that name.)
Bound(lists) ==
  \E via \in Collections, name \in Names, args \in lists :
    LET f == Lookup(via, name) IN
    /\ f.t = "function"
    /\ f # Method
    /\ Finish(Op("bound", via, name, RawArray(args), Undefined), Apply(f, args))
    /\ UNCHANGED instance

\* ContractFactory.deploy(...args), the backend answering r.
deploy(lists) ==
  \E args \in lists, r \in DeployResponses :
    LET split == splitArgsAndOptions(args)
        options == Default(split.options, Obj("parseRequest" :> Bool(TRUE)))
        param == RawArray(split.args)
        constructorCalldata ==
          getCalldata(param, parseCallback("DEPLOY", "constructor", param,
                                           Get(options, "parseRequest")))
        l == Op("deploy", "", "constructor", RawArray(args), Undefined)
        sent == <<Split(split)>> \o constructorCalldata.trace \o
                <<[ev |-> "declareAndDeploy",
                   constructorCalldata |-> constructorCalldata.value,
                   salt |-> Get(options, "addressSalt")]>>
    IN IF split.threw
       THEN Finish(l, Outcome(<<>>, Throw(TypeError))) /\ UNCHANGED instance
       ELSE IF constructorCalldata.threw
       THEN /\ Finish(l, Outcome(<<Split(split)>> \o constructorCalldata.trace,
                                 Throw(constructorCalldata.err)))
            /\ UNCHANGED instance
       ELSE IF ~Truthy(r.contract_address)
       THEN Finish(l, Outcome(sent, Throw(DeployFailed))) /\ UNCHANGED instance
       ELSE /\ Finish(l, Outcome(sent, Return(This)))
            /\ New(Contract(abi, r.contract_address, Account), r.transaction_hash)

\* ContractFactory.attach(address)
factoryAttach ==
  \E a \in ConstructAddresses :
    /\ Finish(Op("factoryAttach", "", "", a, Undefined), Outcome(<<>>, Return(This)))
    /\ New(Contract(abi, a, Account), Undefined)

\* The dispatcher, with rebinding of address and backend.
Next ==
  \/ attach(AttachAddresses)
  \/ connect(Backends)
  \/ Call_
  \/ Invoke
  \/ Estimate
  \/ Populate

\* The bound operations of every schema.
NextBinding ==
  \/ attach({Str("0xCD")})
  \/ connect({Provider, Account})
  \/ Bound(BindingArgLists)

\* Everything that splits a trailing options object off its arguments.
NextSplit ==
  \/ Bound(ArgLists)
  \/ deploy(ArgLists)

\* Deployment and its confirmation.
NextLifecycle ==
  \/ attach(AttachAddresses)
  \/ connect(Backends)
  \/ deployed
  \/ deploy(LifecycleArgLists)
  \/ factoryAttach

Spec == Init /\ [][Next]_vars

SpecBinding == InitBinding /\ [][NextBinding]_vars

SpecSplit == InitSplit /\ [][NextSplit]_vars

SpecLifecycle == Init /\ [][NextLifecycle]_vars

(***************************************************************************)
(* Properties                                                              *)
(***************************************************************************)
Steps == 1..Len(trace)

ReadPath == {"callContract"}
WritePath == {"execute", "invokeFunction"}
BackendOperations ==
  {"callContract", "execute", "invokeFunction", "estimateInvokeFee",
   "declareAndDeploy", "waitForTransaction"}

NoBackend == \A i \in Steps : trace[i].ev \notin BackendOperations

IsView(e) == e.stateMutability = "view" \/ e.state_mutability = "view"

\* The first function entry of that name, 0 when there is none.
FirstFunction(n) ==
  LET ok(i) == abi[i].type = "function" /\ abi[i].name = n
  IN IF \E i \in 1..Len(abi) : ok(i)
     THEN CHOOSE i \in 1..Len(abi) : ok(i) /\ \A j \in 1..(i - 1) : ~ok(j)
     ELSE 0

\* A trailing options object: a plain object with a recognized option key.
TrailingOptions(l) ==
  Len(l) > 0 /\ Last(l).t = "object" /\ \E k \in OptionKeys : k \in DOMAIN Last(l).v

Precompiled(args) == IsCalldata(args) \/ FirstIsCalldata(args)

\* C1: the default operation bound under a name (on the instance and in
\* functions) reaches the backend only through callContract when the entry it
\* was built from is tagged view (under either spelling), and only through
\* execute or invokeFunction when it is not.
C1_MutabilityRouting ==
  (last.op = "bound" /\ last.via \in {"instance", "functions"}) =>
    LET e == abi[Lookup(last.via, last.method).v.entry] IN
    /\ e.type = "function" /\ e.name = last.method
    /\ \A i \in Steps :
         trace[i].ev \in BackendOperations =>
           trace[i].ev \in (IF IsView(e) THEN ReadPath ELSE WritePath)

C1_Witness ==
  /\ last.op = "bound" /\ last.via = "instance"
  /\ address = Str("0xCD")
  /\ abi[own[last.method].v.entry].state_mutability = "view"
  /\ \E i \in Steps : trace[i].ev = "callContract"

\* C2: with the address unset or null, call, invoke and estimate (on a method
\* of the schema) fail with the precondition error and invoke no backend
\* operation.
C2_PreconditionEnforced ==
  (/\ last.op \in {"call", "invoke", "estimate"}
   /\ find(last.method) # 0
   /\ address \in {Undefined, Null}) =>
    ret = Throw(NotConnected) /\ NoBackend

\* C3: a Calldata given as args (or as the first element of the list) to call,
\* invoke or populate is neither validated nor compiled, and is the calldata
\* handed to the backend or returned by populate, whatever parseRequest says.
C3_PrecompiledPassthrough ==
  (last.op \in {"call", "invoke", "populate"} /\ Precompiled(last.args)) =>
    LET cd == IF IsCalldata(last.args) THEN last.args ELSE last.args.v[1] IN
    /\ \A i \in Steps : trace[i].ev \notin {"validate", "compile"}
    /\ \A i \in Steps :
         trace[i].ev \in BackendOperations => trace[i].call.calldata = cd
    /\ (last.op = "populate" /\ ret.k = "return") => ret.v.calldata = cd

C3_Witness ==
  /\ last.op = "invoke"
  /\ FirstIsCalldata(last.args) /\ Len(last.args.v) > 1
  /\ Get(last.options, "parseRequest") = Bool(FALSE)
  /\ \E i \in Steps : trace[i].ev = "execute" /\ trace[i].call.calldata = Cd

\* C4: splitArgsAndOptions removes the last element and returns it as the
\* options when it is a record with a recognized option key, returning the
\* earlier elements in order; otherwise it returns the whole list unchanged
\* with an empty options object.
C4_SplitterCorrect ==
  (\/ last.op = "deploy"
   \/ last.op = "bound" /\ last.via \in {"instance", "functions", "callStatic"}) =>
    LET l == last.args.v IN
    /\ Len(trace) > 0
    /\ trace[1] = Split([args |-> IF TrailingOptions(l) THEN Front(l) ELSE l,
                         options |-> IF TrailingOptions(l) THEN Last(l) ELSE EmptyObj])

\* C5: whichever of the four bound operations is called with a trailing
\* options object, the list that is validated or compiled is the list without
\* that object.
C5_OptionsNeverCompiled ==
  (last.op = "bound" /\ TrailingOptions(last.args.v)) =>
    \A i \in Steps :
      trace[i].ev \in {"validate", "compile"} =>
        trace[i].args = RawArray(Front(last.args.v))

\* C6: with a bound address, invoke calls execute (with maxFee and nonce) and
\* never invokeFunction when the backend exposes execute; otherwise it fails
\* with the nonce-required error exactly when no nonce was supplied, and for
\* every supplied nonce calls invokeFunction once with signature and nonce.
C6_InvokeBackendSelection ==
  (/\ last.op = "invoke"
   /\ address.t = "string"
   /\ find(last.method) # 0
   /\ ~getCalldata(last.args,
                   parseCallback("INVOKE", last.method, last.args,
                                 Default(Get(last.options, "parseRequest"),
                                         Bool(TRUE)))).threw) =>
    LET nonce == Get(last.options, "nonce")
        sent(kind) == {i \in Steps : trace[i].ev = kind}
    IN IF providerOrAccount.execute
       THEN /\ sent("invokeFunction") = {}
            /\ Cardinality(sent("execute")) = 1
            /\ \A i \in sent("execute") :
                 /\ trace[i].maxFee = Get(last.options, "maxFee")
                 /\ trace[i].nonce = nonce
       ELSE /\ sent("execute") = {}
            /\ (ret = Throw(NonceRequired)) <=> (nonce = Undefined)
            /\ nonce = Undefined => sent("invokeFunction") = {}
            /\ nonce # Undefined =>
                 /\ Cardinality(sent("invokeFunction")) = 1
                 /\ \A i \in sent("invokeFunction") :
                      /\ trace[i].nonce = nonce
                      /\ trace[i].signature = Get(last.options, "signature")

\* C7: with a bound address and arguments that pass validation (or a
\* Calldata), estimate builds the Call populate returns for the same method
\* and args before it looks at the backend: without estimateInvokeFee it then
\* fails with the capability error and contacts no backend operation, with it
\* it passes exactly that Call; raw args are validated under INVOKE before
\* populate compiles them.
C7_EstimateBuildsCallFirst ==
  (/\ last.op = "estimate"
   /\ address.t = "string"
   /\ find(last.method) # 0
   /\ Precompiled(last.args) \/ ~validate("INVOKE", last.method, last.args).threw) =>
    LET p == populate(last.method, last.args)
        built == {i \in Steps : trace[i].ev = "populate"}
        sent == {i \in Steps : trace[i].ev \in BackendOperations}
    IN /\ p.ret.k = "return"
       /\ p.ret.v.contractAddress = address
       /\ p.ret.v.entrypoint = last.method
       /\ p.ret.v.calldata.t = "calldata"
       /\ Cardinality(built) = 1
       /\ \A i \in built : trace[i].call = p.ret.v
       /\ IF providerOrAccount.estimateInvokeFee
          THEN /\ Cardinality(sent) = 1
               /\ \A j \in sent :
                    /\ trace[j] = [ev |-> "estimateInvokeFee", call |-> p.ret.v]
                    /\ \A i \in built : i < j
          ELSE sent = {} /\ ret = Throw(NotAccount)
       /\ ~Precompiled(last.args) =>
            \E v, c \in Steps :
              /\ v < c /\ \A i \in built : c < i
              /\ trace[v].ev = "validate" /\ trace[v].kind = "INVOKE"
              /\ trace[v].args = last.args
              /\ trace[c].ev = "compile" /\ trace[c].args = last.args

C7_Witness ==
  /\ last.op = "estimate"
  /\ last.args = RawArray(<<Num(1)>>)
  /\ ~providerOrAccount.estimateInvokeFee
  /\ ret = Throw(NotAccount)
  /\ \E i \in Steps :
       trace[i] = Populated(Call(address, last.method, Compiled(<<"1">>)))

\* C8: deploy called with raw constructor arguments, request-parsing not
\* disabled (no options object included), validates them under DEPLOY and
\* compiles them before declareAndDeploy, which is handed the compiled
\* Calldata.
C8_DeployCompilesArgs ==
  (/\ last.op = "deploy"
   /\ last.args.v # <<>>
   /\ ~Precompiled(last.args)
   /\ Get(Last(last.args.v), "parseRequest") # Bool(FALSE)) =>
    \A i \in Steps :
      trace[i].ev = "declareAndDeploy" =>
        /\ trace[i].constructorCalldata.t = "calldata"
        /\ \E v, c \in Steps :
             /\ v < c /\ c < i
             /\ trace[v].ev = "validate" /\ trace[v].kind = "DEPLOY"
             /\ trace[c].ev = "compile"

\* C9: the operations bound under a name are those built from the first
\* function entry of that name, in all four collections and on the instance;
\* an entry named like an existing instance property (address, invoke) does
\* not replace that property; and nothing rebinds them later.
C9_FirstWinsNonOverwriting ==
  /\ \A n \in Names :
       LET i == FirstFunction(n) IN
       IF i = 0
       THEN /\ functions[n] = Undefined /\ callStatic[n] = Undefined
            /\ populateTransaction[n] = Undefined /\ estimateFee[n] = Undefined
       ELSE /\ functions[n] = Fn(IF IsView(abi[i]) THEN "call" ELSE "invoke", i)
            /\ callStatic[n] = Fn("call", i)
            /\ populateTransaction[n] = Fn("populate", i)
            /\ estimateFee[n] = Fn("estimate", i)
  /\ own["f"] = functions["f"]
  /\ own["invoke"] = Method
  /\ own["address"].t # "function"

\* C10: deployed waits for the recorded hash exactly when one is recorded;
\* on success it clears the hash and returns the instance, on failure the
\* error propagates and the hash stays; with no hash it returns at once; it
\* never changes address or backend; and once the hash is cleared no
\* operation on that instance records one again.
C10_DeployedLifecycle ==
  [][/\ last'.op = "deployed" =>
          /\ Truthy(deployTransactionHash) <=>
               (\E i \in 1..Len(trace') : trace'[i].ev = "waitForTransaction")
          /\ \A i \in 1..Len(trace') :
               trace'[i] = [ev |-> "waitForTransaction", hash |-> deployTransactionHash]
          /\ ~Truthy(deployTransactionHash) =>
               ret' = Return(This) /\ deployTransactionHash' = deployTransactionHash
          /\ (Truthy(deployTransactionHash) /\ ret'.k = "return") =>
               ret' = Return(This) /\ deployTransactionHash' = Undefined
          /\ (Truthy(deployTransactionHash) /\ ret'.k = "throw") =>
               ret' = Throw(BackendError) /\ deployTransactionHash' = deployTransactionHash
          /\ own' = own
          /\ providerOrAccount' = providerOrAccount
     /\ (~Truthy(deployTransactionHash) /\ last'.op \notin {"deploy", "factoryAttach"}) =>
          ~Truthy(deployTransactionHash')]_vars

C10_Witness ==
  /\ last.op = "deployed"
  /\ trace = <<[ev |-> "waitForTransaction", hash |-> Str("0xh1")]>>
  /\ ret = Return(This)
  /\ deployTransactionHash = Undefined

====
